---- MODULE Spec2Model ----
(***************************************************************************)
(* DHT11 driver of src/dht11_library.py: the read() / read_retry()         *)
(* orchestration, the start signal and acknowledgement handshake, the      *)
(* 40-slot sampling loop and the frame decoder; and of the logger of       *)
(* src/data_collector.py that calls it: run_once(), read_sensor() and      *)
(* what save_data() leaves in the data file.                               *)
(*                                                                         *)
(* Temperatures and humidities are kept in tenths (24.0 degrees = 240):    *)
(* the code computes byte + byte * 0.1 in floating point, and for all      *)
(* 65536 byte pairs the float range tests of lines 137 and 143 agree with  *)
(* the same tests on 10 * byte + byte.  The clock is time.time() in whole  *)
(* seconds; it never runs backwards.                                       *)
(***************************************************************************)
EXTENDS Integers, Sequences, FiniteSets, TLC

\* ------------------------------------------------------------- bounds
MaxClock == 5
MaxRetries == 2
MaxSharedClock == 4
MaxRecords == 2
MaxCycles == 2

\* -------------------------------------------------- program constants
CACHE_SECONDS == 2
RETRY_SLEEP == 2
ACK_POLL_LIMIT == 1000
BIT_POLL_LIMIT == 50000
BIT_THRESHOLD_US == 35
FRAME_BITS == 40
MIN_BITS == 32

Threads == {1, 2}
Instances == {1, 2}

\* Python's None / a present value.
None == <<>>
Some(x) == <<x>>
Get(o) == o[1]

VARIABLES
  now,               \* time.time(), whole seconds
  last_valid_time,   \* [instance -> seconds]
  last_temperature,  \* [instance -> None or Some(tenths)]
  last_humidity,     \* [instance -> None or Some(tenths)]
  pin_mode,          \* [instance -> "NONE" | "OUT" | "IN"]
  pin_level,         \* [instance -> level the host drives: "LOW" | "HIGH" | "Z"]
  pc,                \* [thread -> position in read() / read_retry()]
  self,              \* [thread -> instance the thread calls]
  call,              \* [thread -> the call in progress: fn, debug, retries]
  attempt,           \* [thread -> loop index of read_retry]
  data_bits,         \* [thread -> None or Some(list of bits)]
  temperature,       \* [thread -> local of read(), tenths]
  humidity,          \* [thread -> local of read(), tenths]
  rv,                \* [thread -> what the last read() returned to read_retry]
  result,            \* [thread -> what the last top-level call returned]
  obs,               \* [thread -> observations of the current call]
  last_ok,           \* [instance -> None or Some(the last 'OK' return of read())]
  config,            \* the logger's parsed config.ini: retry_count,
                     \* max_records, backup_enabled, auto_push
  data_file,         \* the list of records in the logger's JSON data file
  file_kind,         \* the data file: "missing" | "list" | "corrupt"
  backup_file,       \* the .json.bak file: kind and records
  cwd,               \* working directory of the process: "start" | "repo"
  sensor_data,       \* [thread -> local of run_once: None or Some(record)]
  existing_data,     \* [thread -> local of run_once / data_list of save_data]
  porcelain,         \* [thread -> what git status printed: "none" (not
                     \* run or failed) | "clean" | "changed"]
  ops,               \* [thread -> file and git operations of this run_once]
  failed,            \* [thread -> the operation of this run_once that failed]
  success,           \* [thread -> what run_once returned last]
  loop,              \* run_continuous: position, start_time, and counts
  unit               \* a direct call of a helper method: its input and result

cache == <<last_valid_time, last_temperature, last_humidity>>
pins == <<pin_mode, pin_level>>
locals == <<data_bits, temperature, humidity>>
disk == <<data_file, file_kind, backup_file>>
logger == <<config, disk, cwd, sensor_data, existing_data, porcelain, ops,
            failed, success, loop>>
vars == <<now, last_valid_time, last_temperature, last_humidity, pin_mode,
          pin_level, pc, self, call, attempt, data_bits, temperature,
          humidity, rv, result, obs, last_ok, config, data_file, file_kind,
          backup_file, cwd, sensor_data, existing_data, porcelain, ops, failed,
          success, loop, unit>>

\* ------------------------------------------------------ frame decoder

\* One byte from eight bits with the first bit least significant.
ByteFrom_LsbFirst(bits, i, j, byte_val) ==
  bits[i * 8 + 1] + 2 * bits[i * 8 + 2] + 4 * bits[i * 8 + 3]
    + 8 * bits[i * 8 + 4] + 16 * bits[i * 8 + 5] + 32 * bits[i * 8 + 6]
    + 64 * bits[i * 8 + 7] + 128 * bits[i * 8 + 8]

\* Lines 281-288: one byte from eight bits, first bit most significant;
\* a position beyond the list shifts in 0.
RECURSIVE ByteFrom(_, _, _, _)
ByteFrom(bits, i, j, byte_val) ==
  IF j = 8 THEN byte_val
  ELSE ByteFrom(bits, i, j + 1,
                IF i * 8 + j < Len(bits)
                  THEN byte_val * 2 + bits[i * 8 + j + 1]
                  ELSE byte_val * 2)

\* Lines 276-277: bits + [0] * (40 - len(bits)).
ZeroPad(bits) ==
  IF Len(bits) < FRAME_BITS
    THEN bits \o [k \in 1..(FRAME_BITS - Len(bits)) |-> 0]
    ELSE bits

\* _bits_to_bytes with a minimum of 24 bits (3 bytes) instead of 32.
_bits_to_bytes_Min24(bits) ==
  IF Len(bits) < 24 THEN None
  ELSE Some([i \in 1..5 |-> ByteFrom(ZeroPad(bits), i - 1, 0, 0)])

_bits_to_bytes(bits) ==
  IF Len(bits) < MIN_BITS THEN None
  ELSE Some([i \in 1..5 |-> ByteFrom(ZeroPad(bits), i - 1, 0, 0)])

\* _verify_checksum comparing the plain sum, without & 0xFF.
_verify_checksum_NoWrap(data_bytes) ==
  IF Len(data_bytes) # 5 THEN FALSE
  ELSE data_bytes[1] + data_bytes[2] + data_bytes[3] + data_bytes[4]
         = data_bytes[5]

\* Lines 292-306: five bytes, and the low 8 bits of the sum of the first
\* four equal the fifth.
_verify_checksum(data_bytes) ==
  IF Len(data_bytes) # 5 THEN FALSE
  ELSE (data_bytes[1] + data_bytes[2] + data_bytes[3] + data_bytes[4]) % 256
         = data_bytes[5]

\* Lines 109-111 and 117-119: the first n bits of a list as a number.
RECURSIVE ShiftIn(_, _, _)
ShiftIn(bits, n, acc) ==
  IF n = 0 THEN acc
  ELSE ShiftIn(Tail(bits), n - 1, acc * 2 + Head(bits))

Min(a, b) == IF a < b THEN a ELSE b

\* Lines 108-112: humidity estimated from a partial frame (whole percent).
PartialHumidity(bits) ==
  LET humidity_bits == IF Len(bits) >= 16
                         THEN SubSeq(bits, 1, 16)
                         ELSE SubSeq(bits, 1, Min(8, Len(bits)))
                                \o [k \in 1..8 |-> 0]
  IN ShiftIn(humidity_bits, Min(8, Len(humidity_bits)), 0) * 10

\* Lines 115-122: temperature estimated from a partial frame, default 20.
PartialTemperature(bits) ==
  IF Len(bits) >= 24
    THEN ShiftIn(SubSeq(bits, 17, 24), 8, 0) * 10
    ELSE 20 * 10

\* Lines 91-100: TRUE when read() returns CHECKSUM_ERROR.  With debug set the
\* inner test len(data_bits) >= 32 lets the read continue.
ChecksumRejects(bits, data_bytes, debug) ==
  IF _verify_checksum(data_bytes) THEN FALSE
  ELSE IF debug THEN ~(Len(bits) >= MIN_BITS)
  ELSE TRUE

\* Line 128 without the fraction byte.
ParsedHumidity_NoFraction(bits, data_bytes) ==
  IF Len(bits) < FRAME_BITS THEN PartialHumidity(bits)
  ELSE data_bytes[1] * 10

\* Lines 104-129: the values read() derives, in tenths.
ParsedHumidity(bits, data_bytes) ==
  IF Len(bits) < FRAME_BITS THEN PartialHumidity(bits)
  ELSE data_bytes[1] * 10 + data_bytes[2]

ParsedTemperature(bits, data_bytes) ==
  IF Len(bits) < FRAME_BITS THEN PartialTemperature(bits)
  ELSE data_bytes[3] * 10 + data_bytes[4]

\* Lines 135-146 with the range tested on the whole-number bytes alone.
InRange_WholePart(bits, h, t) ==
  IF Len(bits) < FRAME_BITS
    THEN 0 <= h /\ h <= 150 * 10 /\ -10 * 10 <= t /\ t <= 100 * 10
    ELSE 0 <= h \div 10 /\ h \div 10 <= 100
           /\ -40 <= t \div 10 /\ t \div 10 <= 80

\* Lines 135-146: the range test, relaxed for a partial frame.
InRange(bits, h, t) ==
  IF Len(bits) < FRAME_BITS
    THEN 0 <= h /\ h <= 150 * 10 /\ -10 * 10 <= t /\ t <= 100 * 10
    ELSE 0 <= h /\ h <= 100 * 10 /\ -40 * 10 <= t /\ t <= 80 * 10

Tuple(t, h, s) == [temperature |-> t, humidity |-> h, status |-> s]

\* Lines 69-146 of read(): from what _read_data_bits returned to either a
\* failure tuple or the values about to be stored (status "OK").
Decode(bits_opt, debug) ==
  IF bits_opt = None \/ Get(bits_opt) = <<>> THEN Tuple(None, None, "NO_DATA")
  ELSE LET bits == Get(bits_opt)
           bytes_opt == _bits_to_bytes(bits)
       IN IF bytes_opt = None THEN Tuple(None, None, "NO_DATA")
          ELSE LET data_bytes == Get(bytes_opt)
                   h == ParsedHumidity(bits, data_bytes)
                   t == ParsedTemperature(bits, data_bytes)
               IN IF ChecksumRejects(bits, data_bytes, debug)
                    THEN Tuple(None, None, "CHECKSUM_ERROR")
                  ELSE IF ~InRange(bits, h, t)
                    THEN Tuple(None, None, "INVALID_RANGE")
                  ELSE Tuple(Some(t), Some(h), "OK")

\* ------------------------------------------------------ the data line

\* What the sensor puts on the line during sampling: the 5 bytes it sends
\* (most significant bit first), the slot in which the line gets stuck
\* (FRAME_BITS: none), the level it is stuck at, and the measured length in
\* microseconds of a short and of a long HIGH pulse.
Frames ==
  { <<50, 0, 24, 0, 74>>,      \* 0x32 0x00 0x18 0x00 0x4A: 50.0 %, 24.0 C
    <<50, 0, 24, 0, 75>>,      \* the same with a wrong checksum
    <<99, 10, 79, 10, 198>>,   \* fractions, both values at their upper limit
    <<100, 1, 24, 0, 125>>,    \* humidity 100.1
    <<50, 0, 80, 1, 131>>,     \* temperature 80.1
    <<50, 0, 24, 182, 0>>,     \* sum 256: it wraps to a checksum of 0
    <<120, 0, 90, 0, 211>> }   \* wrong checksum, implausible values

\* The slots in which the line may get stuck: the first, those on either
\* side of the 32-bit minimum, the last, and FRAME_BITS for a line that never
\* does.
StopSlots == {0, MIN_BITS - 1, MIN_BITS, FRAME_BITS - 1, FRAME_BITS}

\* Bit i (0..39) of frame f on the wire, most significant bit of a byte first.
FrameBit(f, i) == (f[(i \div 8) + 1] \div (2 ^ (7 - (i % 8)))) % 2

ShortPulses == {27, BIT_THRESHOLD_US}
LongPulses == {BIT_THRESHOLD_US + 1, 70}

LineBehaviours ==
  [frame : Frames, stop : StopSlots, stuck : {"LOW", "HIGH"},
   us0 : ShortPulses, us1 : LongPulses]

\* Consecutive polls of slot i that read LOW before the line reads HIGH.
LowPolls(b, i) ==
  IF i = b.stop /\ b.stuck = "LOW" THEN BIT_POLL_LIMIT + 1 ELSE 1

\* Consecutive polls of slot i that read HIGH before the line reads LOW.
HighPolls(b, i) ==
  IF i = b.stop /\ b.stuck = "HIGH" THEN BIT_POLL_LIMIT + 1 ELSE 1

\* (time.time() - high_start) * 1000000 of slot i.
HighTime(b, i) == IF FrameBit(b.frame, i) = 1 THEN b.us1 ELSE b.us0

\* Line 245 with >= for >.
BitOf_Inclusive(high_time) == IF high_time >= BIT_THRESHOLD_US THEN 1 ELSE 0

\* Lines 245-248: the bit of a slot whose HIGH pulse was measured as
\* high_time microseconds.
BitOf(high_time) == IF high_time > BIT_THRESHOLD_US THEN 1 ELSE 0

\* Lines 219-255: the sampling loop from slot i on, with the bits so far.
\* ret is what the function returns, n the number of bits it sampled, and
\* gave_up the wait that ran out of polls: "LOW" for the wait of line 222
\* (the line never went HIGH), "HIGH" for that of line 231, "NONE" for neither.
RECURSIVE SampleFrom(_, _, _)
SampleFrom(b, i, bits) ==
  IF i = FRAME_BITS
    THEN [ret |-> Some(bits), n |-> Len(bits), gave_up |-> "NONE"]
  ELSE IF LowPolls(b, i) > BIT_POLL_LIMIT
    THEN [ret |-> None, n |-> Len(bits), gave_up |-> "LOW"]
  ELSE IF HighPolls(b, i) > BIT_POLL_LIMIT
    THEN IF i >= MIN_BITS
           THEN [ret |-> Some(bits), n |-> Len(bits), gave_up |-> "HIGH"]
           ELSE [ret |-> None, n |-> Len(bits), gave_up |-> "HIGH"]
  ELSE SampleFrom(b, i + 1, Append(bits, BitOf(HighTime(b, i))))

\* _read_data_bits returning the bits it has whenever the HIGH wait of line
\* 231 gives up, without the test i >= 32 of line 236.
_read_data_bits_AnyPartial(b) ==
  LET r == SampleFrom(b, 0, <<>>)
  IN IF r.gave_up = "HIGH"
       THEN [r EXCEPT !.ret = Some([k \in 1..r.n |->
                                      BitOf(HighTime(b, k - 1))])]
       ELSE r

\* Lines 209-259.
_read_data_bits(b) == SampleFrom(b, 0, <<>>)

\* A wait that never gives up: every poll at the waited level is made.
WaitCalls_NoLimit(p, limit) == p + 1

\* GPIO.input calls of a wait that sees p polls at the waited level before
\* the line changes: p + 1, or limit + 1 when the wait gives up.
WaitCalls(p, limit) == IF p > limit THEN limit + 1 ELSE p + 1

Max(a, b) == IF a > b THEN a ELSE b

\* The most GPIO.input calls made by one wait of _read_data_bits on b.
RECURSIVE SamplingPolls(_, _)
SamplingPolls(b, i) ==
  IF i = FRAME_BITS THEN 0
  ELSE IF LowPolls(b, i) > BIT_POLL_LIMIT
    THEN WaitCalls(LowPolls(b, i), BIT_POLL_LIMIT)
  ELSE IF HighPolls(b, i) > BIT_POLL_LIMIT
    THEN WaitCalls(HighPolls(b, i), BIT_POLL_LIMIT)
  ELSE Max(Max(WaitCalls(LowPolls(b, i), BIT_POLL_LIMIT),
               WaitCalls(HighPolls(b, i), BIT_POLL_LIMIT)),
           SamplingPolls(b, i + 1))

\* Every outcome of _read_data_bits over the behaviours of the line, with the
\* most GPIO.input calls one of its waits took.
SamplingOutcomes ==
  { [ret |-> _read_data_bits(b).ret, n |-> _read_data_bits(b).n,
     gave_up |-> _read_data_bits(b).gave_up,
     polls |-> SamplingPolls(b, 0)] : b \in LineBehaviours }

\* Polls at the waited level that a handshake wait may see.
AckPolls == {0, ACK_POLL_LIMIT, ACK_POLL_LIMIT + 1}

\* ------------------------------------------------------- observations

\* What is recorded about a call, for the properties only:
\*   checked_at  time.time() of line 52 in the current read()
\*   entry       the cache fields when the current read() was entered
\*   ok_before   the last 'OK' return when the current read() was entered
\*   stored_at   time.time() of line 149 in the current read()
\*   gpio_calls  GPIO.setup and GPIO.output calls made by the current read()
\*   polls       GPIO.input calls made by the last wait of the current read()
\*               (for the sampling loop: the most made by one of its waits;
\*               0: the read has made no GPIO.input call)
\*   sampled     bits sampled by the current read() (-1: it has not run
\*               _read_data_bits)
\*   gave_up     the wait of _read_data_bits that ran out of polls in the
\*               current read(): "LOW", "HIGH", or "NONE"
\*   reads       read() calls begun in the current top-level call
\*   runs        start signals begun in the current top-level call
\*   sleeps      time.sleep(2) calls begun in the current top-level call
\*   wake        when the last time.sleep(2) of the call ends or ended
\*   all_cs      every read() of the current call ended 'CHECKSUM_ERROR'
\*   ok_runs     runs when a read() of the current call returned 'OK'
NoObs ==
  [checked_at |-> 0, entry |-> <<0, None, None>>, ok_before |-> None,
   stored_at |-> 0, gpio_calls |-> 0, polls |-> 0, sampled |-> -1,
   gave_up |-> "NONE", reads |-> 0, runs |-> 0, sleeps |-> 0, wake |-> 0, all_cs |-> TRUE,
   ok_runs |-> 0]

CacheOf(o) == <<last_valid_time[o], last_temperature[o], last_humidity[o]>>

\* The observations of a read() that is just entered.
ReadEntered(ob, o) ==
  [ob EXCEPT !.entry = CacheOf(o), !.ok_before = last_ok[o],
             !.checked_at = 0, !.stored_at = 0, !.gpio_calls = 0,
             !.polls = 0, !.sampled = -1, !.gave_up = "NONE",
             !.reads = @ + 1]

NoCall == [fn |-> "none", debug |-> FALSE, retries |-> 0]
NoResult == Tuple(None, None, "NONE")

\* No helper method is being called directly.
NoUnit == [fn |-> "none", input |-> <<>>, arg |-> <<>>, ret |-> None]

\* ---------------------------------------------------------------- Init

\* __init__ with last_valid_time set to the clock value at construction.
DriverInit_StampedAtStart ==
  /\ now = CACHE_SECONDS
  /\ last_valid_time = [o \in Instances |-> CACHE_SECONDS]
  /\ last_temperature = [o \in Instances |-> None]
  /\ last_humidity = [o \in Instances |-> None]
  /\ pin_mode = [o \in Instances |-> "NONE"]
  /\ pin_level = [o \in Instances |-> "Z"]
  /\ pc = [t \in Threads |-> "idle"]
  /\ self = [t \in Threads |-> 1]
  /\ call = [t \in Threads |-> NoCall]
  /\ attempt = [t \in Threads |-> 0]
  /\ data_bits = [t \in Threads |-> None]
  /\ temperature = [t \in Threads |-> None]
  /\ humidity = [t \in Threads |-> None]
  /\ rv = [t \in Threads |-> None]
  /\ result = [t \in Threads |-> NoResult]
  /\ obs = [t \in Threads |-> NoObs]
  /\ last_ok = [o \in Instances |-> None]
  /\ unit = NoUnit

\* The driver after DHT11(pin), at a clock value at which the empty cache
\* is no longer fresh.
DriverInit ==
  /\ now = CACHE_SECONDS
  /\ last_valid_time = [o \in Instances |-> 0]
  /\ last_temperature = [o \in Instances |-> None]
  /\ last_humidity = [o \in Instances |-> None]
  /\ pin_mode = [o \in Instances |-> "NONE"]
  /\ pin_level = [o \in Instances |-> "Z"]
  /\ pc = [t \in Threads |-> "idle"]
  /\ self = [t \in Threads |-> 1]
  /\ call = [t \in Threads |-> NoCall]
  /\ attempt = [t \in Threads |-> 0]
  /\ data_bits = [t \in Threads |-> None]
  /\ temperature = [t \in Threads |-> None]
  /\ humidity = [t \in Threads |-> None]
  /\ rv = [t \in Threads |-> None]
  /\ result = [t \in Threads |-> NoResult]
  /\ obs = [t \in Threads |-> NoObs]
  /\ last_ok = [o \in Instances |-> None]
  /\ unit = NoUnit

\* The values _load_config writes to a new config.ini.
DefaultConfig ==
  [retry_count |-> 3, read_interval |-> 60, max_records |-> 525600,
   backup_enabled |-> TRUE, auto_push |-> TRUE]

\* run_continuous is not running.  `at` is its position, start_time the
\* local of line 269; cycles counts the run_once calls, cleanups the
\* sensor.cleanup() calls, cause tells what ended the loop, and after_false
\* notes that run_once was called again after it had returned False.
NoLoop ==
  [at |-> "off", start_time |-> 0, cycles |-> 0, cleanups |-> 0,
   cause |-> "none", seen_false |-> FALSE, after_false |-> FALSE]

\* Lines 325-327 of main(): --test switches auto_push off.
Main(c, test) == IF test THEN [c EXCEPT !.auto_push = FALSE] ELSE c

\* The logger after TemperatureHumidityLogger(config_file) with parsed
\* configuration c, before its first record.
LoggerStart(c, kind) ==
  /\ config = c
  /\ data_file = <<>>
  /\ file_kind = kind
  /\ backup_file = [kind |-> "missing", records |-> <<>>]
  /\ cwd = "start"
  /\ sensor_data = [t \in Threads |-> None]
  /\ existing_data = [t \in Threads |-> <<>>]
  /\ porcelain = [t \in Threads |-> "none"]
  /\ ops = [t \in Threads |-> <<>>]
  /\ failed = [t \in Threads |-> "none"]
  /\ success = [t \in Threads |-> "NONE"]
  /\ loop = NoLoop

Init == DriverInit /\ LoggerStart(DefaultConfig, "missing")

\* --------------------------------------------------------------- clock

\* The positions at which a thread reads the clock next: line 52, line 149 and
\* the sleep of line 331.  A second that passes anywhere else is seen at the
\* next of these positions, so the clock is advanced only there.
ClockReaders == {"read_check", "store_time", "rr_sleep"}

Tick(active) ==
  /\ now < MaxClock
  /\ \E t \in active : pc[t] \in ClockReaders
  /\ now' = now + 1
  /\ UNCHANGED <<cache, pins, pc, self, call, attempt, locals, rv, result,
                 obs, last_ok>>
  /\ UNCHANGED <<logger, unit>>

\* ---------------------------------------------------------------- read

\* A caller calls sensor.read(debug).
CallReadOn(t, o, debug) ==
  /\ pc[t] = "idle"
  /\ self' = [self EXCEPT ![t] = o]
  /\ pc' = [pc EXCEPT ![t] = "read_check"]
  /\ call' = [call EXCEPT ![t] = [fn |-> "read", debug |-> debug, retries |-> 0]]
  /\ attempt' = [attempt EXCEPT ![t] = 0]
  /\ rv' = [rv EXCEPT ![t] = None]
  /\ obs' = [obs EXCEPT ![t] = ReadEntered(NoObs, o)]
  /\ data_bits' = [data_bits EXCEPT ![t] = None]
  /\ temperature' = [temperature EXCEPT ![t] = None]
  /\ humidity' = [humidity EXCEPT ![t] = None]
  /\ UNCHANGED <<now, cache, pins, result, last_ok>>
  /\ UNCHANGED <<logger, unit>>

\* Thread t calls read(debug) on the instance it holds.
CallRead(t, debug) == CallReadOn(t, self[t], debug)

\* read() returns tup: to its caller, or to read_retry at line 323.
Return(t, tup) ==
  /\ rv' = [rv EXCEPT ![t] = Some(tup)]
  /\ IF call[t].fn = "read"
       THEN /\ pc' = [pc EXCEPT ![t] = "idle"]
            /\ result' = [result EXCEPT ![t] = tup]
       ELSE /\ pc' = [pc EXCEPT ![t] = "rr_after_read"]
            /\ UNCHANGED result

\* Line 52 with a window of one second less.
CacheFresh_OneSecond(t) == now - last_valid_time[self[t]] < CACHE_SECONDS - 1

\* Line 52 with <= for <.
CacheFresh_Inclusive(t) == now - last_valid_time[self[t]] <= CACHE_SECONDS

\* Line 52: the cache is fresh when less than 2 seconds old.
CacheFresh(t) == now - last_valid_time[self[t]] < CACHE_SECONDS

\* Lines 52-53 with a cache hit that renews last_valid_time.
ReadCheck_Touch(t) ==
  /\ pc[t] = "read_check"
  /\ obs' = [obs EXCEPT ![t].checked_at = now]
  /\ IF CacheFresh(t)
       THEN /\ Return(t, Tuple(last_temperature[self[t]],
                               last_humidity[self[t]], "CACHE"))
            /\ last_valid_time' = [last_valid_time EXCEPT ![self[t]] = now]
       ELSE /\ pc' = [pc EXCEPT ![t] = "setup_out"]
            /\ UNCHANGED <<rv, result, last_valid_time>>
  /\ UNCHANGED <<now, last_temperature, last_humidity, pins, self, call,
                 attempt, locals, last_ok>>
  /\ UNCHANGED <<logger, unit>>

\* Lines 52-53.
ReadCheck(t) ==
  /\ pc[t] = "read_check"
  /\ obs' = [obs EXCEPT ![t].checked_at = now]
  /\ IF CacheFresh(t)
       THEN Return(t, Tuple(last_temperature[self[t]],
                            last_humidity[self[t]], "CACHE"))
       ELSE /\ pc' = [pc EXCEPT ![t] = "setup_out"]
            /\ UNCHANGED <<rv, result>>
  /\ UNCHANGED <<now, cache, pins, self, call, attempt, locals, last_ok>>
  /\ UNCHANGED <<logger, unit>>

\* Line 164, GPIO.setup(pin, OUT); when it raises, line 205 catches it,
\* _start_signal returns False and read() returns 'TIMEOUT' (line 62).
SetupOut(t) ==
  /\ pc[t] = "setup_out"
  /\ obs' = [obs EXCEPT ![t].gpio_calls = @ + 1, ![t].runs = @ + 1]
  /\ \E raises \in BOOLEAN :
       IF raises
         THEN /\ Return(t, Tuple(None, None, "TIMEOUT"))
              /\ UNCHANGED pins
         ELSE /\ pin_mode' = [pin_mode EXCEPT ![self[t]] = "OUT"]
              /\ pc' = [pc EXCEPT ![t] = "write_low"]
              /\ UNCHANGED <<pin_level, rv, result>>
  /\ UNCHANGED <<now, cache, self, call, attempt, locals, last_ok>>
  /\ UNCHANGED <<logger, unit>>

\* Lines 167-168: drive LOW and hold 20 ms.
WriteLow(t) ==
  /\ pc[t] = "write_low"
  /\ pin_level' = [pin_level EXCEPT ![self[t]] = "LOW"]
  /\ obs' = [obs EXCEPT ![t].gpio_calls = @ + 1]
  /\ pc' = [pc EXCEPT ![t] = "write_high"]
  /\ UNCHANGED <<now, cache, pin_mode, self, call, attempt, locals, rv,
                 result, last_ok>>
  /\ UNCHANGED <<logger, unit>>

\* Lines 171-172: drive HIGH and hold 40 microseconds.
WriteHigh(t) ==
  /\ pc[t] = "write_high"
  /\ pin_level' = [pin_level EXCEPT ![self[t]] = "HIGH"]
  /\ obs' = [obs EXCEPT ![t].gpio_calls = @ + 1]
  /\ pc' = [pc EXCEPT ![t] = "setup_in"]
  /\ UNCHANGED <<now, cache, pin_mode, self, call, attempt, locals, rv,
                 result, last_ok>>
  /\ UNCHANGED <<logger, unit>>

\* _start_signal going on to poll the line without line 175.
SetupIn_Skipped(t) ==
  /\ pc[t] = "setup_in"
  /\ obs' = [obs EXCEPT ![t].gpio_calls = @ + 1]
  /\ pc' = [pc EXCEPT ![t] = "ack_wait1"]
  /\ UNCHANGED <<now, cache, pins, self, call, attempt, locals, rv, result,
                 last_ok>>
  /\ UNCHANGED <<logger, unit>>

\* Line 175: release the line (input with pull-up).  GPIO.setup may raise
\* here as in line 164: line 205 catches it with the pin still an output,
\* _start_signal returns False and read() returns 'TIMEOUT' (line 62).
SetupIn(t) ==
  /\ pc[t] = "setup_in"
  /\ obs' = [obs EXCEPT ![t].gpio_calls = @ + 1]
  /\ \E raises \in BOOLEAN :
       IF raises
         THEN /\ Return(t, Tuple(None, None, "TIMEOUT"))
              /\ UNCHANGED pins
         ELSE /\ pin_mode' = [pin_mode EXCEPT ![self[t]] = "IN"]
              /\ pin_level' = [pin_level EXCEPT ![self[t]] = "Z"]
              /\ pc' = [pc EXCEPT ![t] = "ack_wait1"]
              /\ UNCHANGED <<rv, result>>
  /\ UNCHANGED <<now, cache, self, call, attempt, locals, last_ok>>
  /\ UNCHANGED <<logger, unit>>

\* Lines 184, 192 and 200, then 59-62: what read() returns when handshake
\* wait `phase` (1: for LOW, 2: for the end of LOW, 3: for the end of HIGH)
\* gives up.  Each wait makes _start_signal return False, and read() has
\* one answer to False.
AckExpired(phase) == Tuple(None, None, "TIMEOUT")

\* One handshake wait (lines 179-184, 187-192, 195-200): the line stays at
\* the waited level for p polls; more than ACK_POLL_LIMIT of them make
\* _start_signal return False.
AckWait(t, phase, here, next) ==
  /\ pc[t] = here
  /\ \E p \in AckPolls :
       IF p > ACK_POLL_LIMIT
         THEN /\ obs' = [obs EXCEPT ![t].polls = WaitCalls(p, ACK_POLL_LIMIT)]
              /\ Return(t, AckExpired(phase))
         ELSE /\ obs' = [obs EXCEPT ![t].polls = WaitCalls(p, ACK_POLL_LIMIT)]
              /\ pc' = [pc EXCEPT ![t] = next]
              /\ UNCHANGED <<rv, result>>
  /\ UNCHANGED <<now, cache, pins, self, call, attempt, locals, last_ok>>
  /\ UNCHANGED <<logger, unit>>

AwaitAckLow(t) == AckWait(t, 1, "ack_wait1", "ack_wait2")
AwaitAckHigh(t) == AckWait(t, 2, "ack_wait2", "ack_wait3")
AwaitAckEnd(t) == AckWait(t, 3, "ack_wait3", "read_bits")

\* Line 68: data_bits = self._read_data_bits(), with one of `outcomes`.
ReadDataBitsOn(t, outcomes) ==
  /\ pc[t] = "read_bits"
  /\ \E r \in outcomes :
       /\ data_bits' = [data_bits EXCEPT ![t] = r.ret]
       /\ obs' = [obs EXCEPT ![t].sampled = r.n, ![t].polls = r.polls,
                              ![t].gave_up = r.gave_up]
  /\ pc' = [pc EXCEPT ![t] = "decode"]
  /\ UNCHANGED <<now, cache, pins, self, call, attempt, temperature, humidity,
                 rv, result, last_ok>>
  /\ UNCHANGED <<logger, unit>>

\* Line 68 on some behaviour of the line.
ReadDataBits(t) == ReadDataBitsOn(t, SamplingOutcomes)

\* Lines 69-146: a failure returns; otherwise the values are parsed.
DecodeBits(t) ==
  /\ pc[t] = "decode"
  /\ LET d == Decode(data_bits[t], call[t].debug)
     IN IF d.status = "OK"
          THEN /\ temperature' = [temperature EXCEPT ![t] = d.temperature]
               /\ humidity' = [humidity EXCEPT ![t] = d.humidity]
               /\ pc' = [pc EXCEPT ![t] = "store_time"]
               /\ UNCHANGED <<rv, result>>
          ELSE /\ Return(t, d)
               /\ UNCHANGED <<temperature, humidity>>
  /\ UNCHANGED <<now, cache, pins, self, call, attempt, data_bits, obs, last_ok>>
  /\ UNCHANGED <<logger, unit>>

\* Line 149 writing an attribute of the class, shared by all instances.
StoreTime_ClassWide(t) ==
  /\ pc[t] = "store_time"
  /\ last_valid_time' = [o \in Instances |-> now]
  /\ obs' = [obs EXCEPT ![t].stored_at = now]
  /\ pc' = [pc EXCEPT ![t] = "store_temp"]
  /\ UNCHANGED <<now, last_temperature, last_humidity, pins, self, call,
                 attempt, locals, rv, result, last_ok>>
  /\ UNCHANGED <<logger, unit>>

\* Line 149.
StoreTime(t) ==
  /\ pc[t] = "store_time"
  /\ last_valid_time' = [last_valid_time EXCEPT ![self[t]] = now]
  /\ obs' = [obs EXCEPT ![t].stored_at = now]
  /\ pc' = [pc EXCEPT ![t] = "store_temp"]
  /\ UNCHANGED <<now, last_temperature, last_humidity, pins, self, call,
                 attempt, locals, rv, result, last_ok>>
  /\ UNCHANGED <<logger, unit>>

\* Line 150.
StoreTemperature(t) ==
  /\ pc[t] = "store_temp"
  /\ last_temperature' = [last_temperature EXCEPT ![self[t]] = temperature[t]]
  /\ pc' = [pc EXCEPT ![t] = "store_hum"]
  /\ UNCHANGED <<now, last_valid_time, last_humidity, pins, self, call,
                 attempt, locals, rv, result, obs, last_ok>>
  /\ UNCHANGED <<logger, unit>>

\* Line 151.
StoreHumidity(t) ==
  /\ pc[t] = "store_hum"
  /\ last_humidity' = [last_humidity EXCEPT ![self[t]] = humidity[t]]
  /\ pc' = [pc EXCEPT ![t] = "return_ok"]
  /\ UNCHANGED <<now, last_valid_time, last_temperature, pins, self, call,
                 attempt, locals, rv, result, obs, last_ok>>
  /\ UNCHANGED <<logger, unit>>

\* Line 153.
ReturnOK(t) ==
  /\ pc[t] = "return_ok"
  /\ Return(t, Tuple(temperature[t], humidity[t], "OK"))
  /\ last_ok' = [last_ok EXCEPT ![self[t]] =
                   Some([time |-> obs[t].stored_at,
                         temperature |-> temperature[t],
                         humidity |-> humidity[t]])]
  /\ obs' = [obs EXCEPT ![t].ok_runs = obs[t].runs]
  /\ UNCHANGED <<now, cache, pins, self, call, attempt, locals>>
  /\ UNCHANGED <<logger, unit>>

\* ---------------------------------------------------------- read_retry

\* A caller calls sensor.read_retry(retries, debug).
CallReadRetry(t, retries, debug) ==
  /\ pc[t] = "idle"
  /\ pc' = [pc EXCEPT ![t] = "rr_loop"]
  /\ call' = [call EXCEPT ![t] =
                [fn |-> "read_retry", debug |-> debug, retries |-> retries]]
  /\ attempt' = [attempt EXCEPT ![t] = 0]
  /\ rv' = [rv EXCEPT ![t] = None]
  /\ obs' = [obs EXCEPT ![t] = NoObs]
  /\ data_bits' = [data_bits EXCEPT ![t] = None]
  /\ temperature' = [temperature EXCEPT ![t] = None]
  /\ humidity' = [humidity EXCEPT ![t] = None]
  /\ UNCHANGED <<now, cache, pins, self, result, last_ok>>
  /\ UNCHANGED <<logger, unit>>

\* Where read_retry returns to: its caller, or line 114 of read_sensor.
AfterRetry(t) == IF call[t].fn = "run_once" THEN "read_sensor" ELSE "idle"

\* Line 319, the loop head, and line 323, the call of read(); after the
\* loop, line 333 returns the last tuple (with retries = 0 its names are
\* unbound and the return raises UnboundLocalError).
RetryLoop(t) ==
  /\ pc[t] = "rr_loop"
  /\ IF attempt[t] < call[t].retries
       THEN /\ pc' = [pc EXCEPT ![t] = "read_check"]
            /\ obs' = [obs EXCEPT ![t] = ReadEntered(obs[t], self[t])]
            /\ data_bits' = [data_bits EXCEPT ![t] = None]
            /\ temperature' = [temperature EXCEPT ![t] = None]
            /\ humidity' = [humidity EXCEPT ![t] = None]
            /\ UNCHANGED result
       ELSE /\ pc' = [pc EXCEPT ![t] = AfterRetry(t)]
            /\ result' = [result EXCEPT ![t] =
                            IF rv[t] = None
                              THEN Tuple(None, None, "RAISED")
                              ELSE Get(rv[t])]
            /\ UNCHANGED <<obs, locals>>
  /\ UNCHANGED <<now, cache, pins, self, call, attempt, rv, last_ok>>
  /\ UNCHANGED <<logger, unit>>

\* Line 324 with a test that never succeeds.
ReturnsNow_Never(t) == FALSE

\* Line 330 with retries for retries - 1.
SleepsAfter_Always(t) == attempt[t] < call[t].retries

\* Line 324 with 'TIMEOUT' ending the retries as 'OK' does.
ReturnsNow_OrTimeout(t) == Get(rv[t]).status \in {"OK", "TIMEOUT"}

\* Line 324: read_retry returns as soon as a read() has status 'OK'.
ReturnsNow(t) == Get(rv[t]).status = "OK"

\* Line 330: a sleep follows unless this was the last attempt.
SleepsAfter(t) == attempt[t] < call[t].retries - 1

\* Lines 324-331, after read() returned.
AfterRead(t) ==
  /\ pc[t] = "rr_after_read"
  /\ obs' = [obs EXCEPT ![t].all_cs =
               @ /\ Get(rv[t]).status = "CHECKSUM_ERROR",
             ![t].sleeps = IF ~ReturnsNow(t) /\ SleepsAfter(t)
                             THEN @ + 1 ELSE @,
             ![t].wake = IF ~ReturnsNow(t) /\ SleepsAfter(t)
                           THEN now + RETRY_SLEEP ELSE @]
  /\ IF ReturnsNow(t)
       THEN /\ pc' = [pc EXCEPT ![t] = AfterRetry(t)]
            /\ result' = [result EXCEPT ![t] = Get(rv[t])]
            /\ UNCHANGED attempt
       ELSE IF SleepsAfter(t)
         THEN /\ pc' = [pc EXCEPT ![t] = "rr_sleep"]
              /\ UNCHANGED <<attempt, result>>
         ELSE /\ pc' = [pc EXCEPT ![t] = "rr_loop"]
              /\ attempt' = [attempt EXCEPT ![t] = @ + 1]
              /\ UNCHANGED result
  /\ UNCHANGED <<now, cache, pins, self, call, locals, rv, last_ok>>
  /\ UNCHANGED <<logger, unit>>

\* Line 331: time.sleep(2) ends once 2 seconds have passed.
RetrySleep(t) ==
  /\ pc[t] = "rr_sleep"
  /\ now >= obs[t].wake
  /\ pc' = [pc EXCEPT ![t] = "rr_loop"]
  /\ attempt' = [attempt EXCEPT ![t] = @ + 1]
  /\ UNCHANGED <<now, cache, pins, self, call, locals, rv, result, obs, last_ok>>
  /\ UNCHANGED <<logger, unit>>

\* -------------------------------------------------------------- logger

driver == <<now, cache, pins, self, attempt, locals, rv, result, last_ok>>

\* run_once() is called; line 234 calls read_sensor(), which calls
\* sensor.read_retry(retries=config['sensor']['retry_count']) with debug
\* left at its default (lines 114-116).
CallRunOnce(t) ==
  /\ pc[t] = "idle"
  /\ Len(data_file) <= MaxRecords
  /\ \/ /\ loop.at = "off"
        /\ UNCHANGED loop
     \/ /\ loop.at = "cycle"
        /\ loop.cycles < MaxCycles
        /\ loop' = [loop EXCEPT !.at = "running", !.cycles = @ + 1,
                                !.start_time = now,
                                !.after_false = @ \/ loop.seen_false]
  /\ pc' = [pc EXCEPT ![t] = "rr_loop"]
  /\ call' = [call EXCEPT ![t] = [fn |-> "run_once", debug |-> FALSE,
                                  retries |-> config.retry_count]]
  /\ attempt' = [attempt EXCEPT ![t] = 0]
  /\ rv' = [rv EXCEPT ![t] = None]
  /\ obs' = [obs EXCEPT ![t] = NoObs]
  /\ data_bits' = [data_bits EXCEPT ![t] = None]
  /\ temperature' = [temperature EXCEPT ![t] = None]
  /\ humidity' = [humidity EXCEPT ![t] = None]
  /\ sensor_data' = [sensor_data EXCEPT ![t] = None]
  /\ existing_data' = [existing_data EXCEPT ![t] = <<>>]
  /\ porcelain' = [porcelain EXCEPT ![t] = "none"]
  /\ ops' = [ops EXCEPT ![t] = <<>>]
  /\ failed' = [failed EXCEPT ![t] = "none"]
  /\ success' = [success EXCEPT ![t] = "NONE"]
  /\ UNCHANGED <<now, cache, pins, self, result, last_ok, config, disk, cwd,
                 unit>>

\* round(x, 1) of lines 121-122.  The values are kept in tenths, and read()
\* returns whole numbers of tenths (byte + byte * 0.1, or a whole byte), which
\* rounding to one decimal place leaves as they are.
Round1(x_opt) == x_opt

\* Lines 119-124: the record of a reading.  `sampled` is not in the file:
\* it notes how many bits the read() behind the record sampled.
Record(t) ==
  [timestamp |-> now,
   temperature |-> Round1(result[t].temperature),
   humidity |-> Round1(result[t].humidity),
   status |-> result[t].status,
   sampled |-> obs[t].sampled]

\* read_sensor taking a 'CACHE' answer for a reading as well.
ReadSensor_CacheCounts(t) ==
  /\ pc[t] = "read_sensor"
  /\ IF result[t].status \in {"OK", "CACHE"}
       THEN /\ sensor_data' = [sensor_data EXCEPT ![t] = Some(Record(t))]
            /\ pc' = [pc EXCEPT ![t] = "load"]
            /\ UNCHANGED success
       ELSE /\ pc' = [pc EXCEPT ![t] = "idle"]
            /\ success' = [success EXCEPT ![t] =
                             IF result[t].status = "RAISED"
                               THEN "RAISED" ELSE "False"]
            /\ UNCHANGED sensor_data
  /\ UNCHANGED <<driver, call, obs, config, disk, cwd, existing_data,
                 porcelain, ops, failed, loop, unit>>

\* Lines 118-127 and 234-236: read_retry has returned to read_sensor.  A
\* status other than 'OK' makes run_once return False; an exception of
\* read_retry leaves run_once as it is.
ReadSensor(t) ==
  /\ pc[t] = "read_sensor"
  /\ IF result[t].status = "OK"
       THEN /\ sensor_data' = [sensor_data EXCEPT ![t] = Some(Record(t))]
            /\ pc' = [pc EXCEPT ![t] = "load"]
            /\ UNCHANGED success
       ELSE /\ pc' = [pc EXCEPT ![t] = "idle"]
            /\ success' = [success EXCEPT ![t] =
                             IF result[t].status = "RAISED"
                               THEN "RAISED" ELSE "False"]
            /\ UNCHANGED sensor_data
  /\ UNCHANGED <<driver, call, obs, config, disk, cwd, existing_data,
                 porcelain, ops, failed, loop, unit>>

\* data_list[-max_records:] of line 152; in Python -0 is 0, and the slice
\* [0:] is the whole list.
LastRecords(data_list, max_records) ==
  IF max_records = 0 THEN data_list
  ELSE SubSeq(data_list, Len(data_list) - max_records + 1, Len(data_list))

\* Lines 150-152 and 164-165: what save_data writes.
Saved(data_list) ==
  IF Len(data_list) > config.max_records
    THEN LastRecords(data_list, config.max_records)
    ELSE data_list

\* What every step of run_once after read_sensor leaves alone.
RunFrame == <<driver, call, obs, config, sensor_data, loop, unit>>

\* An operation is noted for the properties.
Did(t, op) == ops' = [ops EXCEPT ![t] = Append(@, op)]

\* run_once starting from an empty list whatever the data file holds.
LoadData_Empty(t) ==
  /\ pc[t] = "load"
  /\ existing_data' = [existing_data EXCEPT ![t] = <<Get(sensor_data[t])>>]
  /\ Did(t, "load")
  /\ pc' = [pc EXCEPT ![t] = "backup"]
  /\ UNCHANGED <<RunFrame, disk, cwd, porcelain, failed, success>>

\* Lines 129-140 and 239-242: load_existing_data gives the stored list, or
\* [] when the file is missing, unreadable or not a JSON list, and the new
\* record is appended.  No cleanup_days is configured (line 245).
LoadData(t) ==
  /\ pc[t] = "load"
  /\ existing_data' = [existing_data EXCEPT ![t] =
                         Append(IF file_kind = "list" THEN data_file ELSE <<>>,
                                Get(sensor_data[t]))]
  /\ Did(t, "load")
  /\ pc' = [pc EXCEPT ![t] = "backup"]
  /\ UNCHANGED <<RunFrame, disk, cwd, porcelain, failed, success>>

\* Lines 150-160 of save_data: the list is cut to max_records, and an
\* existing data file is copied to the backup file when backup_enabled; a
\* failing cp is logged and the save goes on.
BackupData(t) ==
  /\ pc[t] = "backup"
  /\ existing_data' = [existing_data EXCEPT ![t] = Saved(@)]
  /\ IF config.backup_enabled /\ file_kind # "missing"
       THEN /\ Did(t, "backup")
            /\ \E copied \in BOOLEAN :
                 backup_file' = IF copied
                                  THEN [kind |-> file_kind,
                                        records |-> data_file]
                                  ELSE backup_file
       ELSE UNCHANGED <<ops, backup_file>>
  /\ pc' = [pc EXCEPT ![t] = "write"]
  /\ UNCHANGED <<RunFrame, data_file, file_kind, cwd, porcelain, failed,
                 success>>

\* save_data logging the IOError without raising it again (no line 169).
WriteData_Swallowed(t) ==
  /\ pc[t] = "write"
  /\ Did(t, "write")
  /\ \E outcome \in {"written", "refused", "cut"} :
       /\ data_file' = CASE outcome = "written" -> existing_data[t]
                         [] outcome = "refused" -> data_file
                         [] outcome = "cut" -> <<>>
       /\ file_kind' = CASE outcome = "written" -> "list"
                         [] outcome = "refused" -> file_kind
                         [] outcome = "cut" -> "corrupt"
       /\ IF outcome = "written"
            THEN /\ pc' = [pc EXCEPT ![t] = "git"]
                 /\ UNCHANGED <<failed, success>>
            ELSE /\ pc' = [pc EXCEPT ![t] = "git"]
                 /\ failed' = [failed EXCEPT ![t] = "write"]
                 /\ UNCHANGED success
  /\ UNCHANGED <<RunFrame, backup_file, cwd, existing_data, porcelain>>

\* Lines 163-169 of save_data: the list is written.  open() may raise
\* IOError and leave the file as it was ("refused"), json.dump may raise it
\* after open() has emptied the file ("cut"); save_data raises it again and
\* run_once ends with the exception.
WriteData(t) ==
  /\ pc[t] = "write"
  /\ Did(t, "write")
  /\ \E outcome \in {"written", "refused", "cut"} :
       /\ data_file' = CASE outcome = "written" -> existing_data[t]
                         [] outcome = "refused" -> data_file
                         [] outcome = "cut" -> <<>>
       /\ file_kind' = CASE outcome = "written" -> "list"
                         [] outcome = "refused" -> file_kind
                         [] outcome = "cut" -> "corrupt"
       /\ IF outcome = "written"
            THEN /\ pc' = [pc EXCEPT ![t] = "git"]
                 /\ UNCHANGED <<failed, success>>
            ELSE /\ pc' = [pc EXCEPT ![t] = "idle"]
                 /\ failed' = [failed EXCEPT ![t] = "write"]
                 /\ success' = [success EXCEPT ![t] = "RAISED"]
  /\ UNCHANGED <<RunFrame, backup_file, cwd, existing_data, porcelain>>

\* One git command of git_push run with check=True: it succeeds and
\* git_push goes on to `next`, or it fails and lines 201-202 log the error
\* and git_push returns.
GitCommand(t, here, op, next) ==
  /\ pc[t] = here
  /\ Did(t, op)
  /\ \E ok \in BOOLEAN :
       IF ok
         THEN /\ pc' = [pc EXCEPT ![t] = next]
              /\ UNCHANGED failed
         ELSE /\ pc' = [pc EXCEPT ![t] = "done"]
              /\ failed' = [failed EXCEPT ![t] = op]
  /\ UNCHANGED <<RunFrame, disk, cwd, existing_data, porcelain, success>>

\* git_push without the test of auto_push (lines 173-174).
GitStart_Always(t) ==
  /\ pc[t] = "git"
  /\ Did(t, "chdir")
  /\ cwd' = "repo"
  /\ pc' = [pc EXCEPT ![t] = "git_status"]
  /\ UNCHANGED <<RunFrame, disk, existing_data, porcelain, failed, success>>

\* Lines 173-177: git_push returns at once when auto_push is off;
\* otherwise it changes to the repository directory, and an os.chdir that
\* raises is logged by lines 203-204.
GitStart(t) ==
  /\ pc[t] = "git"
  /\ IF ~config.auto_push
       THEN /\ pc' = [pc EXCEPT ![t] = "done"]
            /\ UNCHANGED <<ops, cwd, failed>>
       ELSE /\ Did(t, "chdir")
            /\ \E ok \in BOOLEAN :
                 IF ok
                   THEN /\ cwd' = "repo"
                        /\ pc' = [pc EXCEPT ![t] = "git_status"]
                        /\ UNCHANGED failed
                   ELSE /\ pc' = [pc EXCEPT ![t] = "done"]
                        /\ failed' = [failed EXCEPT ![t] = "chdir"]
                        /\ UNCHANGED cwd
  /\ UNCHANGED <<RunFrame, disk, existing_data, porcelain, success>>

\* Lines 180-185: git status --porcelain; no output ends git_push.
GitStatus(t) ==
  /\ pc[t] = "git_status"
  /\ Did(t, "status")
  /\ \E out \in {"failed", "clean", "changed"} :
       /\ pc' = [pc EXCEPT ![t] = IF out = "changed" THEN "git_add" ELSE "done"]
       /\ failed' = [failed EXCEPT ![t] = IF out = "failed" THEN "status" ELSE @]
       /\ porcelain' = [porcelain EXCEPT ![t] = IF out = "failed" THEN "none"
                                                ELSE out]
  /\ UNCHANGED <<RunFrame, disk, cwd, existing_data, success>>

\* Line 188, lines 191-192 and lines 195-197.
GitAdd(t) == GitCommand(t, "git_add", "add", "git_commit")
GitCommit(t) == GitCommand(t, "git_commit", "commit", "git_push")
GitPush(t) == GitCommand(t, "git_push", "push", "done")

\* Lines 257-260: run_once logs the reading and returns True.
RunDone(t) ==
  /\ pc[t] = "done"
  /\ success' = [success EXCEPT ![t] = "True"]
  /\ pc' = [pc EXCEPT ![t] = "idle"]
  /\ UNCHANGED <<RunFrame, disk, cwd, existing_data, porcelain, ops, failed>>

\* The steps of run_once after read_sensor.
StoreBody(t) ==
  \/ LoadData(t)
  \/ BackupData(t)
  \/ WriteData(t)
  \/ GitStart(t)
  \/ GitStatus(t)
  \/ GitAdd(t)
  \/ GitCommit(t)
  \/ GitPush(t)
  \/ RunDone(t)

\* ------------------------------------------------------ run_continuous

\* What the steps of run_continuous itself leave alone.
LoopFrame ==
  <<cache, self, call, attempt, locals, rv, result, obs, last_ok, config,
    disk, cwd, sensor_data, existing_data, porcelain, ops, failed, success,
    unit>>

\* Lines 262-268: run_continuous is called and enters its loop.
CallRunContinuous(t) ==
  /\ pc[t] = "idle"
  /\ loop.at = "off"
  /\ loop' = [NoLoop EXCEPT !.at = "cycle"]
  /\ UNCHANGED <<now, pins, pc, LoopFrame>>

\* run_continuous leaving its loop when run_once returns False.
LoopAfter_StopsOnFalse(t) ==
  /\ loop.at = "running"
  /\ pc[t] = "idle"
  /\ success[t] # "NONE"
  /\ loop' = IF success[t] = "True"
               THEN [loop EXCEPT !.at = "sleep"]
               ELSE [loop EXCEPT !.at = "finally", !.cause = "error"]
  /\ UNCHANGED <<now, pins, pc, LoopFrame>>

\* Lines 271-277 and 284-286: run_once has returned or raised.  A return,
\* True or False, goes on to the wait; an exception is logged and raised
\* again, through the finally clause.
LoopAfter(t) ==
  /\ loop.at = "running"
  /\ pc[t] = "idle"
  /\ success[t] # "NONE"
  /\ loop' = IF success[t] = "RAISED"
               THEN [loop EXCEPT !.at = "finally", !.cause = "error"]
               ELSE [loop EXCEPT !.at = "sleep",
                                 !.seen_false = @ \/ success[t] = "False"]
  /\ UNCHANGED <<now, pins, pc, LoopFrame>>

\* Line 277: max(0, interval - elapsed).
SleepTime == Max(0, config.read_interval - (now - loop.start_time))

\* Lines 276-280: the wait for the next cycle; time.sleep returns when the
\* clock has advanced by sleep_time.
LoopSleep(t) ==
  /\ loop.at = "sleep"
  /\ now + SleepTime <= MaxClock
  /\ now' = now + SleepTime
  /\ loop' = [loop EXCEPT !.at = "cycle"]
  /\ UNCHANGED <<pins, pc, LoopFrame>>

\* Lines 282-283: Ctrl-C anywhere inside the try block ends what is running
\* (neither _start_signal nor git_push catches KeyboardInterrupt).
KeyboardInterrupt(t) ==
  /\ loop.at \in {"cycle", "running", "sleep"}
  /\ pc' = [pc EXCEPT ![t] = "idle"]
  /\ loop' = [loop EXCEPT !.at = "finally", !.cause = "interrupt"]
  /\ UNCHANGED <<now, pins, LoopFrame>>

\* Lines 287-289 and DHT11.cleanup (src/dht11_library.py lines 335-344):
\* sensor.cleanup() is called; GPIO.cleanup(pin) frees the pin, or raises
\* and GPIO.cleanup() is tried, which frees it or raises out of the finally
\* clause.  Otherwise run_continuous returns after a KeyboardInterrupt and
\* lets any other exception go on.
LoopFinally(t) ==
  /\ loop.at = "finally"
  /\ \E outcome \in {"freed", "raised"} :
       /\ IF outcome = "freed"
            THEN /\ pin_mode' = [pin_mode EXCEPT ![self[t]] = "NONE"]
                 /\ pin_level' = [pin_level EXCEPT ![self[t]] = "Z"]
            ELSE UNCHANGED pins
       /\ loop' = [loop EXCEPT !.cleanups = @ + 1,
                               !.at = IF loop.cause = "interrupt"
                                         /\ outcome = "freed"
                                        THEN "returned" ELSE "raised"]
  /\ UNCHANGED <<now, pc, LoopFrame>>

\* ------------------------------------------------- the helper methods

\* Byte values at the ends and in the middle of 0..255, and the frames of
\* 5 bytes made of them.
ByteSamples == {0, 1, 127, 128, 255}
ByteTuples == [1..5 -> ByteSamples] \cup Frames

\* The bits of 5 bytes as the sensor sends them.
Expand(f) == [k \in 1..FRAME_BITS |-> FrameBit(f, k - 1)]

\* Lists of n bits: all zeros, all ones, and alternating.
BitLists(n) ==
  { [k \in 1..n |-> 0], [k \in 1..n |-> 1], [k \in 1..n |-> k % 2] }

\* Lists of bytes that are not 5 long.
OddByteLists ==
  { <<>>, <<0, 0, 0, 0>>, <<1, 1, 1, 1>>, <<255, 1, 0, 0>>,
    <<0, 0, 0, 0, 0, 0>>, <<1, 1, 1, 1, 4, 4>>, <<255, 1, 0, 0, 0, 0>> }

\* _read_data_bits() is called on its own while the line behaves as b.
CallReadDataBits(b) ==
  /\ unit.fn = "none"
  /\ unit' = [fn |-> "_read_data_bits", input |-> b, arg |-> <<>>,
              ret |-> _read_data_bits(b).ret]
  /\ UNCHANGED <<driver, pc, call, obs, logger>>

\* A caller calls _bits_to_bytes on the 40 bits of the bytes f.
CallBitsToBytesOf(f) ==
  /\ unit.fn = "none"
  /\ unit' = [fn |-> "_bits_to_bytes", input |-> f, arg |-> Expand(f),
              ret |-> _bits_to_bytes(Expand(f))]
  /\ UNCHANGED <<driver, pc, call, obs, logger>>

\* A caller calls _bits_to_bytes on a list of fewer than 40 bits.
CallBitsToBytes(bits) ==
  /\ unit.fn = "none"
  /\ unit' = [fn |-> "_bits_to_bytes", input |-> <<>>, arg |-> bits,
              ret |-> _bits_to_bytes(bits)]
  /\ UNCHANGED <<driver, pc, call, obs, logger>>

\* A caller calls _verify_checksum on a list of bytes.
CallVerifyChecksum(data_bytes) ==
  /\ unit.fn = "none"
  /\ unit' = [fn |-> "_verify_checksum", input |-> <<>>, arg |-> data_bytes,
              ret |-> Some(_verify_checksum(data_bytes))]
  /\ UNCHANGED <<driver, pc, call, obs, logger>>

\* The caller has the result and may call again.
CallDone ==
  /\ unit.fn # "none"
  /\ unit' = NoUnit
  /\ UNCHANGED <<driver, pc, call, obs, logger>>

\* ---------------------------------------------------------------- Next

\* The steps of read() but for its call and its sampling.
ReadBody(t) ==
  \/ ReadCheck(t)
  \/ SetupOut(t)
  \/ WriteLow(t)
  \/ WriteHigh(t)
  \/ SetupIn(t)
  \/ AwaitAckLow(t)
  \/ AwaitAckHigh(t)
  \/ AwaitAckEnd(t)
  \/ DecodeBits(t)
  \/ StoreTime(t)
  \/ StoreTemperature(t)
  \/ StoreHumidity(t)
  \/ ReturnOK(t)

\* The steps of read(), with a caller that calls it directly.
ReadStep(t) ==
  \/ \E debug \in BOOLEAN : CallRead(t, debug)
  \/ ReadDataBits(t)
  \/ ReadBody(t)

\* The steps of read_retry() but for its call.
RetryBody(t) ==
  \/ RetryLoop(t)
  \/ AfterRead(t)
  \/ RetrySleep(t)

Step(t) ==
  \/ ReadStep(t)
  \/ \E retries \in 0..MaxRetries, debug \in BOOLEAN :
       CallReadRetry(t, retries, debug)
  \/ RetryBody(t)

\* One caller at a time: the calls of thread 1 on instance 1.
Next == Tick({1}) \/ Step(1)

Spec == Init /\ [][Next]_vars

\* One caller of read() alone, whose thread keeps running: read() is
\* straight code around its polling loops, and nothing in it waits for
\* another thread.
ReadNext == Tick({1}) \/ ReadStep(1)

ReadSpec == Init /\ [][ReadNext]_vars /\ WF_vars(ReadStep(1))

\* Two threads that call read() on the one instance, as two callers of
\* sensor.read() in one process would; the class holds no lock, so their
\* steps interleave freely.  The sensor answers with full valid frames:
\* 50.0 % at 24.0 C or 100.0 % at 80.0 C.
SharedOutcomes ==
  { r \in SamplingOutcomes :
      /\ r.n = FRAME_BITS
      /\ \E f \in { <<50, 0, 24, 0, 74>>, <<99, 10, 79, 10, 198>> } :
           r.ret = Some([k \in 1..FRAME_BITS |-> FrameBit(f, k - 1)]) }

SharedStep(t) ==
  \/ CallRead(t, FALSE)
  \/ ReadDataBitsOn(t, SharedOutcomes)
  \/ ReadBody(t)

SharedNext ==
  \/ now < MaxSharedClock /\ Tick(Threads)
  \/ SharedStep(1)
  \/ SharedStep(2)

SharedSpec == Init /\ [][SharedNext]_vars

\* The logger as the only caller of the driver.  config.ini gives some
\* retry_count and max_records.  The sensor answers with the full frame
\* 0x32 0x00 0x18 0x00 0x4A, with the first 32 bits of 0x32 0x00 0x18 0xB6
\* before the line gets stuck HIGH, or with 31 bits before it gets stuck.
Configs ==
  [retry_count : 0..MaxRetries, read_interval : {60},
   max_records : 0..MaxRecords, backup_enabled : BOOLEAN,
   auto_push : BOOLEAN]

LoggerOutcomes ==
  { r \in SamplingOutcomes :
      \/ r.ret = Some([k \in 1..FRAME_BITS |->
                         FrameBit(<<50, 0, 24, 0, 74>>, k - 1)])
      \/ r.ret = Some([k \in 1..MIN_BITS |->
                         FrameBit(<<50, 0, 24, 182, 0>>, k - 1)])
      \/ r.ret = None /\ r.n = MIN_BITS - 1 /\ r.gave_up = "HIGH" }

LoggerInit ==
  /\ DriverInit
  /\ \E c \in Configs, test \in BOOLEAN, kind \in {"missing", "corrupt"} :
       LoggerStart(Main(c, test), kind)

LoggerNext ==
  \/ Tick({1})
  \/ CallRunOnce(1)
  \/ RetryBody(1)
  \/ ReadBody(1)
  \/ ReadDataBitsOn(1, LoggerOutcomes)
  \/ ReadSensor(1)
  \/ StoreBody(1)

LoggerSpec == LoggerInit /\ [][LoggerNext]_vars

\* The logger run with run_continuous, as main() does without --once.
LoopConfigs ==
  [retry_count : {1, 2}, read_interval : {0, CACHE_SECONDS},
   max_records : {MaxRecords}, backup_enabled : {TRUE},
   auto_push : BOOLEAN]

LoopInit ==
  /\ DriverInit
  /\ \E c \in LoopConfigs : LoggerStart(c, "missing")

LoopNext ==
  \/ Tick({1})
  \/ CallRunContinuous(1)
  \/ CallRunOnce(1)
  \/ RetryBody(1)
  \/ ReadBody(1)
  \/ ReadDataBitsOn(1, LoggerOutcomes)
  \/ ReadSensor(1)
  \/ StoreBody(1)
  \/ LoopAfter(1)
  \/ LoopSleep(1)
  \/ KeyboardInterrupt(1)
  \/ LoopFinally(1)

LoopSpec == LoopInit /\ [][LoopNext]_vars

\* One caller with two instances (two sensors): each read() is called on
\* either of them.
PairNext ==
  \/ Tick({1})
  \/ \E o \in Instances : CallReadOn(1, o, FALSE)
  \/ ReadDataBitsOn(1, SharedOutcomes)
  \/ ReadBody(1)

PairSpec == Init /\ [][PairNext]_vars

\* The helper methods called one at a time on inputs of every shape.
UnitNext ==
  \/ \E b \in LineBehaviours : CallReadDataBits(b)
  \/ \E f \in ByteTuples : CallBitsToBytesOf(f)
  \/ \E n \in 0..(FRAME_BITS - 1) : \E bits \in BitLists(n) :
       CallBitsToBytes(bits)
  \/ \E data_bytes \in ByteTuples \cup OddByteLists :
       CallVerifyChecksum(data_bytes)
  \/ CallDone

UnitSpec == Init /\ [][UnitNext]_vars

\* ============================================================== claims

\* The read() that thread t made last has returned, and rv[t] is its tuple.
LastReadDone(t) ==
  /\ pc[t] \in {"idle", "rr_after_read", "rr_sleep", "rr_loop"}
  /\ rv[t] # None

\* read() of thread t is between the range test and its return 'OK'.
Storing(t) == pc[t] \in {"store_time", "store_temp", "store_hum", "return_ok"}

\* read() of thread t is past line 53 and before line 149.
Driving(t) ==
  pc[t] \in {"setup_out", "write_low", "write_high", "setup_in", "ack_wait1",
             "ack_wait2", "ack_wait3", "read_bits", "decode"}

\* Byte k (0..4) of a list of 40 bits, first bit most significant.
ByteOf(bits, k) ==
  128 * bits[8 * k + 1] + 64 * bits[8 * k + 2] + 32 * bits[8 * k + 3]
    + 16 * bits[8 * k + 4] + 8 * bits[8 * k + 5] + 4 * bits[8 * k + 6]
    + 2 * bits[8 * k + 7] + bits[8 * k + 8]

\* The 40 bits of 5 bytes, most significant bit of each byte first.
BitsOf(f) ==
  [k \in 1..40 |-> (f[((k - 1) \div 8) + 1] \div (2 ^ (7 - ((k - 1) % 8)))) % 2]

\* The last read() of thread t sampled a full frame, which it has decoded.
FullFrameDecoded(t) ==
  /\ data_bits[t] # None
  /\ Len(Get(data_bits[t])) = 40
  /\ pc[t] # "decode"

SumMatches(bits) ==
  (ByteOf(bits, 0) + ByteOf(bits, 1) + ByteOf(bits, 2) + ByteOf(bits, 3)) % 256
    = ByteOf(bits, 4)

\* C1: read() stores and returns a reading (status 'OK') only in an attempt
\* whose sampling loop sampled all 40 bits; an attempt that sampled fewer
\* ends in a failure status.
C1_ReadingOnlyFromFullFrame ==
  \A t \in Threads :
    /\ Storing(t) => obs[t].sampled = 40
    /\ (LastReadDone(t) /\ Get(rv[t]).status = "OK") => obs[t].sampled = 40

\* C2: a 40-bit frame whose checksum byte differs from the sum of the other
\* four, mod 256, makes read() return (None, None, 'CHECKSUM_ERROR') for
\* either value of debug, and the cache keeps the fields it had on entry.
C2_ChecksumMismatchRejected ==
  \A t \in Threads :
    (FullFrameDecoded(t) /\ ~SumMatches(Get(data_bits[t]))) =>
      /\ ~Storing(t)
      /\ LastReadDone(t)
      /\ Get(rv[t]) = Tuple(None, None, "CHECKSUM_ERROR")
      /\ CacheOf(self[t]) = obs[t].entry

\* C3: a 40-bit frame with a matching checksum, humidity at most 100.0 and
\* temperature at most 80.0 makes a read() that is not served from the cache
\* return 'OK' with humidity b0 + b1/10 and temperature b2 + b3/10 (tenths:
\* 10*b0 + b1 and 10*b2 + b3).
C3_ValidFrameDecodes ==
  \A t \in Threads :
    FullFrameDecoded(t) =>
      LET bits == Get(data_bits[t])
          h == 10 * ByteOf(bits, 0) + ByteOf(bits, 1)
          c == 10 * ByteOf(bits, 2) + ByteOf(bits, 3)
      IN (SumMatches(bits) /\ h <= 1000 /\ c <= 800) =>
           \/ /\ Storing(t)
              /\ temperature[t] = Some(c)
              /\ humidity[t] = Some(h)
           \/ /\ LastReadDone(t)
              /\ Get(rv[t]) = Tuple(Some(c), Some(h), "OK")

\* C3 witness: the frame 0x32 0x00 0x18 0x00 0x4A was read as 50.0 %, 24.0 C.
C3_Witness ==
  /\ LastReadDone(1)
  /\ data_bits[1] = Some(BitsOf(<<50, 0, 24, 0, 74>>))
  /\ Get(rv[1]) = Tuple(Some(240), Some(500), "OK")

\* Lists of every length below 32: all zeros, all ones, and alternating.
ShortBitLists ==
  UNION { { [k \in 1..n |-> 0], [k \in 1..n |-> 1], [k \in 1..n |-> k % 2] } :
          n \in 0..31 }

\* _bits_to_bytes on each of these lists.
ShortListsRejected == \A bits \in ShortBitLists : _bits_to_bytes(bits) = None

\* C4: an attempt that sampled fewer than 32 bits makes read() return
\* (None, None, 'NO_DATA') and leaves the cache as it was on entry;
\* _bits_to_bytes returns None for every list shorter than 32 bits.
C4_TooFewBitsNoData ==
  /\ \A t \in Threads :
       (LastReadDone(t) /\ obs[t].sampled >= 0 /\ obs[t].sampled < 32) =>
         /\ Get(rv[t]) = Tuple(None, None, "NO_DATA")
         /\ CacheOf(self[t]) = obs[t].entry
  /\ \A t \in Threads :
       (obs[t].sampled >= 0 /\ obs[t].sampled < 32) => ~Storing(t)
  /\ ShortListsRejected

\* C4 witness: with a reading in the cache, a read() whose line got stuck in
\* slot 31 returned 'NO_DATA'.
C4_Witness ==
  /\ LastReadDone(1)
  /\ obs[1].sampled = 31
  /\ Get(rv[1]).status = "NO_DATA"
  /\ last_temperature[1] # None

InStrictRange(t_opt, h_opt) ==
  /\ t_opt # None
  /\ h_opt # None
  /\ 0 <= Get(h_opt) /\ Get(h_opt) <= 1000
  /\ -400 <= Get(t_opt) /\ Get(t_opt) <= 800

\* C5: every 'OK' result of read() or read_retry() and every pair of values
\* in the cache has 0 <= humidity <= 100 and -40 <= temperature <= 80.
C5_ReadingsInRange ==
  /\ \A t \in Threads :
       (LastReadDone(t) /\ Get(rv[t]).status = "OK") =>
         InStrictRange(Get(rv[t]).temperature, Get(rv[t]).humidity)
  /\ \A t \in Threads :
       result[t].status = "OK" =>
         InStrictRange(result[t].temperature, result[t].humidity)
  /\ \A o \in Instances :
       (last_temperature[o] # None /\ last_humidity[o] # None) =>
         InStrictRange(last_temperature[o], last_humidity[o])

\* Thread t is in a read() that has passed line 52, or the read it made
\* last has returned.
PastCheck(t) == Driving(t) \/ Storing(t) \/ LastReadDone(t)

\* Seconds between the last 'OK' return before the read() of thread t and
\* the clock value that read() took at line 52.
AgeAtCheck(t) == obs[t].checked_at - Get(obs[t].ok_before).time

\* C6: once read() has returned 'OK' at clock time t, a later read() of the
\* same instance at a clock time less than 2 seconds after t returns the
\* same temperature and humidity and makes no GPIO call.
C6_CachedWithinTwoSeconds ==
  \A t \in Threads :
    (PastCheck(t) /\ obs[t].ok_before # None /\ AgeAtCheck(t) < 2) =>
      /\ LastReadDone(t)
      /\ Get(rv[t]).temperature = Get(obs[t].ok_before).temperature
      /\ Get(rv[t]).humidity = Get(obs[t].ok_before).humidity
      /\ obs[t].gpio_calls = 0
      /\ obs[t].polls = 0

\* C6 witness: one second after an 'OK' read of 24.0 C, a read() was served
\* 24.0 C from the cache.
C6_Witness ==
  /\ LastReadDone(1)
  /\ obs[1].ok_before # None
  /\ AgeAtCheck(1) = 1
  /\ Get(rv[1]).status = "CACHE"
  /\ Get(rv[1]).temperature = Some(240)

\* C7: read() answers 'CACHE' only when its clock value is strictly less
\* than 2 seconds after the last successful read; at 2 seconds or more it
\* begins the start signal instead.
C7_CacheOnlyWhenFresh ==
  \A t \in Threads :
    /\ (LastReadDone(t) /\ Get(rv[t]).status = "CACHE") =>
         /\ obs[t].ok_before # None
         /\ AgeAtCheck(t) < 2
    /\ (PastCheck(t) /\ obs[t].ok_before # None /\ AgeAtCheck(t) >= 2) =>
         /\ obs[t].gpio_calls >= 1 \/ pc[t] = "setup_out"
         /\ LastReadDone(t) => Get(rv[t]).status # "CACHE"

\* C7 witness: exactly 2 seconds after a successful read, a read() drove the
\* line.
C7_Witness ==
  /\ LastReadDone(1)
  /\ obs[1].ok_before # None
  /\ AgeAtCheck(1) = 2
  /\ obs[1].gpio_calls >= 1
  /\ obs[1].runs >= 1

\* C8: a read() that returns a status other than 'OK' leaves last_valid_time,
\* last_temperature and last_humidity as they were on entry; they are
\* written only after the range test of a successful read.
C8_FailuresLeaveCache ==
  \A t \in Threads :
    /\ (pc[t] = "read_check" \/ Driving(t)) => CacheOf(self[t]) = obs[t].entry
    /\ (LastReadDone(t) /\ Get(rv[t]).status # "OK") =>
         CacheOf(self[t]) = obs[t].entry

\* C8 witness: with a reading in the cache, a read() returned 'INVALID_RANGE'.
C8_Witness ==
  /\ LastReadDone(1)
  /\ Get(rv[1]).status = "INVALID_RANGE"
  /\ last_temperature[1] # None
  /\ last_valid_time[1] > 0

\* read_retry of thread t has returned.
RetryReturned(t) == pc[t] = "idle" /\ call[t].fn = "read_retry"

\* C9: when every attempt of read_retry(retries = n), n >= 1, ends with
\* 'CHECKSUM_ERROR', it returns (None, None, 'CHECKSUM_ERROR') after exactly
\* n start signals, with one 2-second sleep before each attempt but the
\* first (n - 1 sleeps) and none after the last.
C9_RetryExhaustion ==
  \A t \in Threads :
    /\ (RetryReturned(t) /\ call[t].retries >= 1 /\ obs[t].all_cs) =>
         /\ result[t] = Tuple(None, None, "CHECKSUM_ERROR")
         /\ obs[t].reads = call[t].retries
         /\ obs[t].runs = call[t].retries
         /\ obs[t].sleeps = call[t].retries - 1
    /\ (call[t].fn = "read_retry" /\ obs[t].all_cs /\ attempt[t] >= 1
          /\ (Driving(t) \/ Storing(t) \/ pc[t] = "rr_after_read")) =>
         /\ obs[t].sleeps = attempt[t]
         /\ obs[t].checked_at >= obs[t].wake

\* C9 witness: read_retry(2) returned after two 'CHECKSUM_ERROR' attempts and
\* one sleep.
C9_Witness ==
  /\ RetryReturned(1)
  /\ call[1].retries = 2
  /\ obs[1].all_cs
  /\ result[1].status = "CHECKSUM_ERROR"
  /\ obs[1].sleeps = 1
  /\ obs[1].runs = 2

\* C10: read_retry returns at the first attempt whose read() is 'OK', with
\* that attempt's values; the cache holds them with that attempt's
\* timestamp; no read(), start signal or sleep follows that attempt.
C10_ReturnsAtFirstOK ==
  \A t \in Threads :
    /\ (RetryReturned(t) /\ result[t].status = "OK") =>
         /\ result[t] = Tuple(temperature[t], humidity[t], "OK")
         /\ temperature[t] # None /\ humidity[t] # None
         /\ CacheOf(self[t]) = <<obs[t].stored_at, temperature[t], humidity[t]>>
         /\ obs[t].stored_at >= obs[t].checked_at
         /\ obs[t].reads = attempt[t] + 1
         /\ obs[t].sleeps = attempt[t]
         /\ obs[t].runs = obs[t].ok_runs
    /\ (call[t].fn = "read_retry" /\ LastReadDone(t)
          /\ Get(rv[t]).status = "OK") =>
         pc[t] \in {"rr_after_read", "idle"}

\* C10 witness: read_retry returned 'OK' from its second attempt.
C10_Witness ==
  /\ RetryReturned(1)
  /\ result[1].status = "OK"
  /\ attempt[1] = 1
  /\ obs[1].sleeps = 1

\* The statuses with which read() reports a failure.
FailureStatuses == {"TIMEOUT", "NO_DATA", "CHECKSUM_ERROR", "INVALID_RANGE"}

\* The first read() of the read_retry call of thread t was answered from the
\* cache: it found a reading less than 2 seconds old and drove nothing.
FirstReadCached(t) ==
  /\ call[t].fn = "read_retry"
  /\ call[t].retries >= 1
  /\ attempt[t] = 0
  /\ LastReadDone(t)
  /\ obs[t].reads = 1
  /\ Get(rv[t]).status = "CACHE"

\* C11: read_retry(retries >= 1) called while the cache holds a reading less
\* than 2 seconds old returns that reading at once (status 'OK' or 'CACHE'):
\* it does not sleep and does not drive the line.
C11_FreshCacheReturnsAtOnce ==
  \A t \in Threads :
    FirstReadCached(t) =>
      /\ pc[t] \in {"rr_after_read", "idle"}
      /\ obs[t].sleeps = 0
      /\ obs[t].runs = 0
      /\ pc[t] = "idle" =>
           /\ result[t].status \in {"OK", "CACHE"}
           /\ result[t].temperature = Get(obs[t].ok_before).temperature
           /\ result[t].humidity = Get(obs[t].ok_before).humidity

\* C12: for every retries >= 0 and every behaviour of the line, read_retry
\* returns a tuple whose status is a reading ('OK', or 'CACHE' for a cached
\* one) or one of the failure statuses; it raises nothing.
C12_RetryNeverRaises ==
  \A t \in Threads :
    RetryReturned(t) =>
      result[t].status \in {"OK", "CACHE"} \cup FailureStatuses

\* C13: when every attempt of read_retry(retries = n), n >= 1, drives the line
\* and fails (with any of TIMEOUT, NO_DATA, CHECKSUM_ERROR, INVALID_RANGE),
\* there are n attempts, each but the last followed by a 2-second sleep
\* whatever its status, and the tuple returned is the last attempt's status
\* with temperature and humidity None.
C13_MixedFailuresRetried ==
  \A t \in Threads :
    /\ (RetryReturned(t) /\ call[t].retries >= 1 /\ result[t].status # "OK"
          /\ obs[t].runs = obs[t].reads) =>
         /\ result[t].status \in FailureStatuses
         /\ result[t] = Tuple(None, None, Get(rv[t]).status)
         /\ obs[t].reads = call[t].retries
         /\ obs[t].sleeps = call[t].retries - 1
    /\ (call[t].fn = "read_retry" /\ LastReadDone(t)
          /\ Get(rv[t]).status \in FailureStatuses
          /\ pc[t] \in {"rr_sleep", "rr_loop"}) =>
         /\ obs[t].sleeps = IF pc[t] = "rr_sleep"
                              THEN attempt[t] + 1
                              ELSE Min(attempt[t], call[t].retries - 1)
         /\ pc[t] = "rr_sleep" => attempt[t] < call[t].retries - 1
    /\ (call[t].fn = "read_retry" /\ attempt[t] >= 1
          /\ (Driving(t) \/ Storing(t) \/ pc[t] = "rr_after_read")) =>
         /\ obs[t].sleeps = attempt[t]
         /\ obs[t].checked_at >= obs[t].wake

\* C13 witness: read_retry(2) returned 'CHECKSUM_ERROR' from its second
\* attempt after a first attempt that drove the line and failed otherwise.
C13_Witness ==
  /\ RetryReturned(1)
  /\ call[1].retries = 2
  /\ result[1] = Tuple(None, None, "CHECKSUM_ERROR")
  /\ ~obs[1].all_cs
  /\ obs[1].reads = 2
  /\ obs[1].runs = 2
  /\ obs[1].sleeps = 1

\* The read() that thread t made last gave up in a handshake wait: it made
\* the four GPIO calls of the start signal, ran out of polls and sampled
\* nothing.
HandshakeExpired(t) ==
  /\ LastReadDone(t)
  /\ obs[t].gpio_calls = 4
  /\ obs[t].polls = ACK_POLL_LIMIT + 1
  /\ obs[t].sampled = -1

\* C14: when a handshake wait gives up, the tuple read() returns tells which
\* of the three waits it was: it is the answer of exactly one of them.
C14_TimeoutTellsPhase ==
  \A t \in Threads :
    HandshakeExpired(t) =>
      Cardinality({phase \in 1..3 : AckExpired(phase) = Get(rv[t])}) = 1

\* C15: when in slot i (0 <= i < 40) the line never goes HIGH within the poll
\* budget, _read_data_bits returns the i bits sampled so far, not None.
C15_PartialBitsReturned ==
  \A t \in Threads :
    (obs[t].sampled >= 0 /\ obs[t].sampled < FRAME_BITS
       /\ obs[t].gave_up = "LOW") =>
      /\ data_bits[t] # None
      /\ Len(Get(data_bits[t])) = obs[t].sampled

\* Thread t is inside read().
InRead(t) == pc[t] = "read_check" \/ Driving(t) \/ Storing(t)

\* No wait of the current read() made more GPIO.input calls than its budget
\* allows: 1001 in the handshake, 50001 in a bit slot.
PollsBounded ==
  \A t \in Threads :
    /\ obs[t].sampled = -1 => obs[t].polls <= ACK_POLL_LIMIT + 1
    /\ obs[t].sampled >= 0 => obs[t].polls <= BIT_POLL_LIMIT + 1

\* C17: every read() ends, whatever the line does: no handshake wait makes
\* more than 1001 polls, no wait of a bit slot more than 50001, and a read()
\* that the caller (thread 1) has begun returns.
C17_ReadTerminates ==
  /\ []PollsBounded
  /\ InRead(1) ~> ~InRead(1)

\* C17 witness: a read() whose line got stuck in a bit slot returned after a
\* wait of 50001 polls.
C17_Witness ==
  /\ LastReadDone(1)
  /\ obs[1].sampled >= 0
  /\ obs[1].gave_up # "NONE"
  /\ obs[1].polls = BIT_POLL_LIMIT + 1
  /\ Get(rv[1]).status \in FailureStatuses

\* The read() that thread t made last ended in the GPIO.setup of line 164:
\* of the GPIO calls of the start signal it made only the first.
SetupRaised(t) == LastReadDone(t) /\ obs[t].gpio_calls = 1

\* C18: when GPIO.setup raises in the start signal, read_retry makes no
\* further attempt and no sleep, and what read() returned differs from the
\* answer to a handshake timeout.
C18_SetupFailureSurfaced ==
  \A t \in Threads :
    (call[t].fn = "read_retry" /\ SetupRaised(t)) =>
      /\ pc[t] \in {"rr_after_read", "idle"}
      /\ \A phase \in 1..3 : Get(rv[t]) # AckExpired(phase)

\* C20: a 40-bit frame whose checksum matches and whose humidity is above 100
\* or whose temperature is above 80 makes read() return
\* (None, None, 'INVALID_RANGE') and leaves the cache as it was on entry.
C20_OutOfRangeRejected ==
  \A t \in Threads :
    FullFrameDecoded(t) =>
      LET bits == Get(data_bits[t])
          h == 10 * ByteOf(bits, 0) + ByteOf(bits, 1)
          c == 10 * ByteOf(bits, 2) + ByteOf(bits, 3)
      IN (SumMatches(bits) /\ (h > 1000 \/ c > 800)) =>
           /\ LastReadDone(t)
           /\ Get(rv[t]) = Tuple(None, None, "INVALID_RANGE")
           /\ CacheOf(self[t]) = obs[t].entry

\* C20 witness: with a reading in the cache, the frame 0x32 0x00 0x50 0x01
\* 0x83 (temperature 80.1) was answered 'INVALID_RANGE'.
C20_Witness ==
  /\ LastReadDone(1)
  /\ data_bits[1] = Some(BitsOf(<<50, 0, 80, 1, 131>>))
  /\ Get(rv[1]) = Tuple(None, None, "INVALID_RANGE")
  /\ last_temperature[1] # None
  /\ CacheOf(1) = obs[1].entry

\* Thread t is in a sampling session: it has claimed the pin as an output
\* (line 164) and has not yet left _read_data_bits.
InSession(t) ==
  pc[t] \in {"write_low", "write_high", "setup_in", "ack_wait1", "ack_wait2",
             "ack_wait3", "read_bits"}

\* C16: two read() calls on one instance are serialized: while one thread is
\* in a sampling session on the pin, no other thread is in one on that pin.
C16_SessionsSerialized ==
  \A t1 \in Threads, t2 \in Threads :
    (t1 # t2 /\ self[t1] = self[t2]) => ~(InSession(t1) /\ InSession(t2))

\* C19: every record in the data file comes from a read() that sampled all
\* 40 bits (and whose checksum matched: the logger leaves debug off, so
\* 'OK' is returned only past the checksum test); none comes from a frame
\* cut short and filled up with zeros.
C19_RecordsFromFullFrames ==
  \A k \in 1..Len(data_file) : data_file[k].sampled = FRAME_BITS

\* ------------------------------------------------- the helper methods

C22_FortyBitsToFiveBytes ==
  (unit.fn = "_bits_to_bytes" /\ Len(unit.arg) = FRAME_BITS) =>
    /\ unit.ret # None
    /\ Len(Get(unit.ret)) = 5
    /\ \A k \in 0..4 :
         /\ Get(unit.ret)[k + 1] \in 0..255
         /\ Get(unit.ret)[k + 1] = ByteOf(unit.arg, k)
    /\ unit.arg = BitsOf(unit.input) => Get(unit.ret) = unit.input

\* C22 witness: the 40 bits of 0x80 0x01 0x7F 0xFF 0x00 came back as
\* those 5 bytes.
C22_Witness ==
  /\ unit.fn = "_bits_to_bytes"
  /\ unit.input = <<128, 1, 127, 255, 0>>
  /\ unit.arg = BitsOf(unit.input)
  /\ unit.ret = Some(<<128, 1, 127, 255, 0>>)

\* C24: _verify_checksum returns True exactly when the list has 5 elements
\* and (b0 + b1 + b2 + b3) mod 256 equals b4, a sum that wraps included.
C24_ChecksumIsSumMod256 ==
  unit.fn = "_verify_checksum" =>
    (Get(unit.ret) <=>
       /\ Len(unit.arg) = 5
       /\ \E q \in 0..3 :
            unit.arg[1] + unit.arg[2] + unit.arg[3] + unit.arg[4]
              = 256 * q + unit.arg[5])

\* C24 witness: 0xFF 0x01 0x00 0x00 with checksum 0x00 was accepted.
C24_Witness ==
  /\ unit.fn = "_verify_checksum"
  /\ unit.arg = <<255, 1, 0, 0, 0>>
  /\ unit.ret = Some(TRUE)

\* C25: the decoder never makes up bits: for a list of 32 to 39 bits
\* _bits_to_bytes does not return 5 bytes obtained by filling the missing
\* bits with zeros.
C25_NoZeroFill ==
  (unit.fn = "_bits_to_bytes" /\ Len(unit.arg) \in MIN_BITS..(FRAME_BITS - 1))
    => unit.ret = None

\* ------------------------------------------------------ the start signal

\* What one step of thread t does to the pin, in the order of lines 164-203:
\* each stage of the start signal is entered from the stage before it and
\* with the pin as that stage left it.
InOrder(t) ==
  LET o == self[t] IN
  /\ pc'[t] = "write_low" =>
       pc[t] = "setup_out" /\ pin_mode'[o] = "OUT" /\ obs'[t].gpio_calls = 1
  /\ pc'[t] = "write_high" =>
       pc[t] = "write_low" /\ pin_mode'[o] = "OUT" /\ pin_level'[o] = "LOW"
  /\ pc'[t] = "setup_in" =>
       pc[t] = "write_high" /\ pin_mode'[o] = "OUT" /\ pin_level'[o] = "HIGH"
  /\ pc'[t] = "ack_wait1" =>
       /\ pc[t] = "setup_in"
       /\ pin_mode'[o] = "IN"
       /\ obs'[t].gpio_calls = 4
       /\ obs'[t].polls = 0
  /\ pc'[t] = "ack_wait2" => pc[t] = "ack_wait1"
  /\ pc'[t] = "ack_wait3" => pc[t] = "ack_wait2"
  /\ pc'[t] = "read_bits" => pc[t] = "ack_wait3"
  /\ obs'[t].polls # obs[t].polls =>
       /\ obs'[t].polls = 0 \/ pin_mode[o] = "IN"
       /\ obs'[t].polls = 0
            \/ pc[t] \in {"ack_wait1", "ack_wait2", "ack_wait3", "read_bits"}
  /\ obs'[t].sampled # obs[t].sampled =>
       /\ obs'[t].sampled = -1 \/ pc[t] = "read_bits"
       /\ obs'[t].sampled = -1 \/ pin_mode[o] = "IN"

\* C23: in every read() not served from the cache the pin is set up as
\* output, driven LOW, driven HIGH and set up as input, in that order; no
\* level is read before the pin is an input, and no bit is sampled before
\* the three handshake waits have completed in order.
C23_StartSignalOrder == [][pc'[1] # pc[1] => InOrder(1)]_vars

\* C23 witness: a read() that was not served from the cache made its four
\* GPIO calls, passed the handshake and sampled all 40 bits.
C23_Witness ==
  /\ LastReadDone(1)
  /\ Get(rv[1]).status = "OK"
  /\ obs[1].gpio_calls = 4
  /\ obs[1].polls > 0
  /\ obs[1].sampled = FRAME_BITS
  /\ pin_mode[self[1]] = "IN"

\* C30: whenever read() returns after the start signal has claimed the pin
\* (any status other than 'CACHE'), the pin is configured as an input: the
\* host has released the line.
C30_LineReleasedOnReturn ==
  \A t \in Threads :
    (LastReadDone(t) /\ Get(rv[t]).status # "CACHE" /\ obs[t].gpio_calls >= 2)
      => pin_mode[self[t]] = "IN"

\* ------------------------------------------------------------ the cache

\* The tuples read() returns with 'OK': the readings one frame can give.
Readings ==
  { tup \in { Decode(r.ret, debug) : r \in SamplingOutcomes,
                                     debug \in BOOLEAN } :
      tup.status = "OK" }

\* C26: with two threads on one instance, a result served from the cache
\* carries the temperature and the humidity that one successful read wrote
\* together with the timestamp: never values from different reads, and
\* never a value that was not written yet.
C26_CacheNeverTorn ==
  \A t \in Threads :
    (LastReadDone(t) /\ Get(rv[t]).status = "CACHE") =>
      /\ Get(rv[t]).temperature # None
      /\ Get(rv[t]).humidity # None
      /\ Tuple(Get(rv[t]).temperature, Get(rv[t]).humidity, "OK") \in Readings

\* C27: read() answers 'CACHE' only if an earlier read() on the same
\* instance returned 'OK'; as long as the cache of the instance is as
\* __init__ left it, read() drives the sensor; and a 'CACHE' result never
\* carries None for temperature or humidity.
C27_CacheOnlyAfterOK ==
  \A t \in Threads :
    /\ (LastReadDone(t) /\ Get(rv[t]).status = "CACHE") =>
         /\ obs[t].ok_before # None
         /\ Get(rv[t]).temperature # None
         /\ Get(rv[t]).humidity # None
    /\ (LastReadDone(t) /\ obs[t].entry = <<0, None, None>>) =>
         /\ Get(rv[t]).status # "CACHE"
         /\ obs[t].gpio_calls >= 1

\* C27 witness: the first read() on the instance drove the sensor and
\* returned 'OK', and the read() after it was answered 'CACHE' with both
\* values.
C27_Witness ==
  /\ LastReadDone(1)
  /\ obs[1].ok_before # None
  /\ Get(obs[1].ok_before).time = obs[1].entry[1]
  /\ obs[1].entry # <<0, None, None>>
  /\ Get(rv[1]).status = "CACHE"
  /\ Get(rv[1]).temperature # None
  /\ Get(rv[1]).humidity # None

\* C28: the debug argument of read() only controls printing: for the bits
\* that were sampled, read(debug=True) and read(debug=False) decode to the
\* same tuple (and so leave the same cache).
C28_DebugOnlyPrints ==
  \A t \in Threads :
    pc[t] = "decode" =>
      Decode(data_bits[t], TRUE) = Decode(data_bits[t], FALSE)

\* A 'CACHE' answer of thread t repeats the last 'OK' of the instance it
\* was asked of.
CacheFromOwnInstance(t) ==
  (LastReadDone(t) /\ Get(rv[t]).status = "CACHE") =>
    /\ last_ok[self[t]] # None
    /\ Get(rv[t]).temperature = Get(last_ok[self[t]]).temperature
    /\ Get(rv[t]).humidity = Get(last_ok[self[t]]).humidity

\* A step of thread t leaves the cache of every instance but its own alone.
OtherCachesKept(t) ==
  \A o \in Instances : o # self'[t] => CacheOf(o)' = CacheOf(o)

\* C29: two instances have independent caches: a successful read on one
\* never makes read() on the other answer 'CACHE', and never changes the
\* other's last_temperature, last_humidity or last_valid_time.
C29_InstancesIndependent ==
  []CacheFromOwnInstance(1) /\ [][OtherCachesKept(1)]_vars

\* C29 witness: less than 2 seconds after an 'OK' on instance 1, a read()
\* on instance 2, which never had an 'OK', drove its sensor and was not
\* answered from the cache, and the cache of instance 1 is as that 'OK'
\* left it.
C29_Witness ==
  /\ LastReadDone(1)
  /\ self[1] = 2
  /\ last_ok[1] # None
  /\ last_ok[2] = None
  /\ obs[1].checked_at - Get(last_ok[1]).time < CACHE_SECONDS
  /\ Get(rv[1]).status # "CACHE"
  /\ obs[1].gpio_calls >= 1
  /\ CacheOf(2) = <<0, None, None>>
  /\ CacheOf(1) = <<Get(last_ok[1]).time, Get(last_ok[1]).temperature,
                    Get(last_ok[1]).humidity>>

\* ----------------------------------------------------- the sampled bits

RunEnded(t) ==
  pc[t] = "idle" /\ call[t].fn = "run_once" /\ success[t] # "NONE"

\* Thread t is in run_once before read_sensor has returned.
Reading(t) ==
  call[t].fn = "run_once" /\ pc[t] \notin
    {"idle", "load", "backup", "write", "git", "git_status", "git_add",
     "git_commit", "git_push", "done"}

\* read_retry ended with a status that is not 'OK'.
NoReading(t) ==
  result[t].status \in
    {"CACHE", "TIMEOUT", "NO_DATA", "CHECKSUM_ERROR", "INVALID_RANGE"}

NoReadingNoOps(t) ==
  (RunEnded(t) /\ NoReading(t)) =>
    /\ success[t] = "False"
    /\ ops[t] = <<>>
    /\ failed[t] = "none"

ReadingKeepsFiles(t) == Reading(t) => (disk' = disk /\ cwd' = cwd)

\* C31: when read_retry ends with a status other than 'OK', run_once
\* returns False without loading, backing up or writing the data file and
\* without any git command, and the stored records are as they were.
C31_NoReadingNoSideEffect ==
  []NoReadingNoOps(1) /\ [][ReadingKeepsFiles(1)]_vars

\* C31 witness: with one record stored by an earlier run, run_once got
\* 'TIMEOUT' from read_retry and returned False; the record is still there.
C31_Witness ==
  /\ RunEnded(1)
  /\ result[1].status = "TIMEOUT"
  /\ success[1] = "False"
  /\ ops[1] = <<>>
  /\ file_kind = "list"
  /\ Len(data_file) = 1

\* Only the write of save_data changes the data file.
OnlyWriteChangesFile(t) ==
  (data_file' # data_file \/ file_kind' # file_kind) => pc[t] = "write"

\* A write that succeeds on a file holding a list, with room for one more
\* record, leaves the list it held followed by the new record.
WriteKeepsAll(t) ==
  ( /\ pc[t] = "write"
    /\ pc'[t] = "git"
    /\ file_kind = "list"
    /\ Len(data_file) + 1 <= config.max_records ) =>
      /\ file_kind' = "list"
      /\ data_file' = Append(data_file, Get(sensor_data[t]))

MostRecent(list, m) == [k \in 1..m |-> list[Len(list) - m + k]]

\* A write that completes leaves at most max_records records, the most
\* recent ones of the list run_once built when that list is longer.
WriteLimits(t) ==
  (pc[t] = "write" /\ pc'[t] = "git") =>
    LET built == Append(IF file_kind = "list" THEN data_file ELSE <<>>,
                        Get(sensor_data[t]))
    IN /\ Len(data_file') <= config.max_records
       /\ Len(built) > config.max_records =>
            data_file' = MostRecent(built, config.max_records)

\* C33: after every save_data call that completes the data file holds at
\* most max_records records, for every max_records >= 0; when the list is
\* longer, the most recent max_records records are kept in their order.
C33_FileWithinMaxRecords == [][WriteLimits(1)]_vars

GitOps == {"chdir", "status", "add", "commit", "push"}

\* Some operation of git_push is among the operations of thread t.
GitBegun(t) == \E k \in 1..Len(ops[t]) : ops[t][k] \in GitOps

\* The write of save_data comes before every operation of git_push.
WriteBeforeGit(t) ==
  \A k \in 1..Len(ops[t]) :
    ops[t][k] \in GitOps => \E j \in 1..(k - 1) : ops[t][j] = "write"

\* C34: in run_once git_push starts only after save_data has completed
\* with the new record written, and when save_data raises (write error)
\* no git command runs in that cycle.
C34_PushOnlyAfterSave ==
  /\ WriteBeforeGit(1)
  /\ (GitBegun(1) \/ pc[1] \in {"git", "git_status", "git_add", "git_commit",
                                "git_push", "done"}) =>
       /\ failed[1] # "write"
       /\ file_kind = "list"
       /\ data_file = existing_data[1]
  /\ failed[1] = "write" => (~GitBegun(1) /\ pc[1] = "idle"
                              /\ success[1] = "RAISED")

\* C34 witness: with auto_push on, the write of save_data failed and
\* run_once ended with the exception, no git command having run.
C34_Witness ==
  /\ config.auto_push
  /\ RunEnded(1)
  /\ failed[1] = "write"
  /\ success[1] = "RAISED"
  /\ ops[1] = <<"load", "write">>

\* The operations of git_push among those of thread t, in their order.
GitSeq(t) == SelectSeq(ops[t], LAMBDA op : op \in GitOps)

PushOrder == <<"chdir", "status", "add", "commit", "push">>

\* C35: with auto_push false (which --test forces) git_push runs no git
\* command and leaves the working directory; with auto_push true and a
\* git status that reports no change, no add, commit or push runs; add,
\* commit and push run in that order, and a failure of one prevents the
\* following ones.
C35_GitPushGuarded ==
  /\ \A c \in Configs : ~Main(c, TRUE).auto_push
  /\ ~config.auto_push => (GitSeq(1) = <<>> /\ cwd = "start")
  /\ porcelain[1] = "clean" =>
       \A k \in 1..Len(ops[1]) : ops[1][k] \notin {"add", "commit", "push"}
  /\ Len(GitSeq(1)) <= Len(PushOrder)
  /\ GitSeq(1) = SubSeq(PushOrder, 1, Len(GitSeq(1)))
  /\ failed[1] \in GitOps =>
       /\ GitSeq(1)[Len(GitSeq(1))] = failed[1]
       /\ pc[1] \in {"done", "idle"}

\* C35 witness: with auto_push true git status reported changes, add
\* succeeded and commit failed: push did not run, and run_once returned.
C35_Witness ==
  /\ config.auto_push
  /\ RunEnded(1)
  /\ porcelain[1] = "changed"
  /\ failed[1] = "commit"
  /\ GitSeq(1) = <<"chdir", "status", "add", "commit">>
  /\ cwd = "repo"

\* C36: run_continuous keeps collecting after a failed run_once: only an
\* exception raised by run_once, or a KeyboardInterrupt, takes it out of the
\* loop, never a cycle that returned False.  And on every exit from the loop
\* sensor.cleanup() has been called exactly once when run_continuous
\* returns or raises, and not before the loop was left.
InLoop == loop.at \in {"cycle", "running", "sleep", "finally"}

LoopExited == loop.at \in {"returned", "raised"}

CleanupOnce ==
  /\ InLoop => loop.cleanups = 0
  /\ LoopExited => loop.cleanups = 1 /\ loop.cause \in {"interrupt", "error"}
  /\ loop.at = "returned" => loop.cause = "interrupt"

FalseGoesOn(t) ==
  /\ loop.at = "running" /\ loop'.at = "finally" /\ loop'.cause = "error"
       => success[t] = "RAISED"
  /\ loop.at = "running" /\ pc[t] = "idle" /\ success[t] = "False"
       /\ loop'.at # loop.at /\ loop'.cause # "interrupt"
       => loop'.at = "sleep"
  /\ loop.at \in {"cycle", "running", "sleep"} /\ loop'.at # loop.at
       => loop'.at \in {"cycle", "running", "sleep", "finally"}

C36_ContinuousKeepsGoingAndCleansUp ==
  []CleanupOnce /\ [][FalseGoesOn(1)]_vars

\* A cycle ran after one that had returned False, then Ctrl-C ended the
\* loop and run_continuous returned with the sensor cleaned up once.
C36_Witness ==
  /\ loop.at = "returned"
  /\ loop.after_false
  /\ loop.cycles = 2
  /\ loop.cleanups = 1

====
